---------------------------- MODULE Spec2Model ----------------------------
(* A model of src/src/queries.ts: the memoizing dispatcher runChartQuery,   *)
(* the field classifiers, the two summarizers getTopValues and              *)
(* getDistribution, and the query service they await.                       *)
(*                                                                          *)
(* Every `await` of the source is a boundary between two actions: the code  *)
(* from one await to the next runs atomically (JavaScript runs a task to    *)
(* completion), and other callers may run between two such pieces.          *)
(*                                                                          *)
(* An optional value (undefined / null in the source) is a sequence of      *)
(* length 0 or 1: None is <<>>, Some(v) is <<v>>.                           *)
EXTENDS Integers, Sequences, FiniteSets

(***************************************************************************)
(* Bounds of the model                                                     *)
(***************************************************************************)
NumCallers == 2      \* concurrent callers of runChartQuery
MaxCalls == 3        \* runChartQuery calls made in one behaviour, in total
MaxRows == 11        \* distinct field values held by the query service (SpecDist)
MainRows == 1        \* the same, in the concurrent specification Spec
MaxMeasures == 2     \* measures of an explore (SpecClassify)

(***************************************************************************)
(* Program constants                                                       *)
(***************************************************************************)
binCount == 20
limitTopValues == 10
limitHistogram == 10

None == <<>>
Some(v) == <<v>>

Abs(x) == IF x < 0 THEN -x ELSE x
SetMin(S) == CHOOSE x \in S : \A y \in S : x <= y
SetMax(S) == CHOOSE x \in S : \A y \in S : x >= y

RECURSIVE SetSum(_, _)
SetSum(S, f) ==
    IF S = {} THEN 0
    ELSE LET x == CHOOSE y \in S : TRUE IN f[x] + SetSum(S \ {x}, f)

(***************************************************************************)
(* Metadata: fields and explores                                           *)
(***************************************************************************)
Categories == {"dimension", "measure"}
Types == {"number", "string"}
ViewLabels == {"Orders", "Products"}
ShortLabels == {"Count", "Total"}

Fields ==
    [name : {"f"}, category : Categories, type : Types, view_label : ViewLabels]

\* the measures of an explore, named by their position
MeasureLists ==
    UNION { { [i \in 1..n |-> [name |-> i,
                               label_short |-> ls[i].label_short,
                               view_label |-> ls[i].view_label]]
              : ls \in [1..n -> [label_short : ShortLabels, view_label : ViewLabels]] }
            : n \in 0..MaxMeasures }

Explores == { [name |-> "e", fields |-> [measures |-> ms]] : ms \in MeasureLists }

(***************************************************************************)
(* Field Capability Classifier                                             *)
(***************************************************************************)
countFieldForFieldAnyView(explore, field) ==
    LET matches == SelectSeq(explore.fields.measures,
                             LAMBDA f : f.label_short = "Count")
    IN  IF Len(matches) = 0 THEN None ELSE Some(matches[1])

\* explore.fields.measures.filter(...)[0]: the first match, or undefined
countFieldForField(explore, field) ==
    LET matches == SelectSeq(explore.fields.measures,
                             LAMBDA f : /\ f.label_short = "Count"
                                        /\ f.view_label = field.view_label)
    IN  IF Len(matches) = 0 THEN None ELSE Some(matches[1])

canGetTopValues(explore, field) ==
    field.category = "dimension" /\ countFieldForField(explore, field) # None

canGetDistribution(explore, field) ==
    field.type = "number" /\ field.category = "dimension"


(***************************************************************************)
(* The query service: the rows it holds and its answers to the three       *)
(* queries the summarizers send (sdk.run_inline_query).  The rows are a    *)
(* bag of values of the requested field: data[x] is the number of rows     *)
(* whose field is x.                                                       *)
(***************************************************************************)
\* values are spaced binCount apart, so that range / binCount is an integer
Spacing == binCount
Los == {0 - 2 * Spacing, 0, Spacing \div 2}
MainLos == {0, Spacing \div 2}

\* n distinct values from lo up; the lowest is the value of two rows
Dataset(lo, n) ==
    [x \in { lo + Spacing * j : j \in 0..(n - 1) } |-> IF x = lo THEN 2 ELSE 1]

Datasets(los, maxRows) == { Dataset(lo, n) : lo \in los, n \in 0..maxRows }

\* one cell of a json_detail row
Cell(value, isNumber) ==
    [value |-> value, isNumber |-> isNumber, rendered |-> None, links |-> None]

\* the groups of the rows, sorted by count descending (ties: by value)
RECURSIVE SortedGroups(_, _)
SortedGroups(data, S) ==
    IF S = {} THEN <<>>
    ELSE LET top == CHOOSE x \in S : \A y \in S :
                        \/ data[x] > data[y]
                        \/ data[x] = data[y] /\ x <= y
         IN  <<top>> \o SortedGroups(data, S \ {top})

\* fields: [field, count], sorts: [count desc], limit, total: true
TopValuesQR(data, field, limit) ==
    LET groups == SortedGroups(data, DOMAIN data)
        n == IF Len(groups) < limit THEN Len(groups) ELSE limit
    IN  [data |-> [i \in 1..n |->
                     [field |-> Cell(groups[i], field.type = "number"),
                      count |-> Cell(data[groups[i]], TRUE)]],
         totals_data |-> [count |-> Cell(SetSum(DOMAIN data, data), TRUE)]]

\* fields: [min, max, average]: one row; the three are null over no rows.
\* The average is kept as the exact quotient sum / n.
StatsQR(data) ==
    LET S == DOMAIN data
        rows == SetSum(S, data)
        sum == SetSum(S, [x \in S |-> x * data[x]])
    IN  IF S = {}
        THEN [min |-> [value |-> None], max |-> [value |-> None],
              average |-> [value |-> None, n |-> 1]]
        ELSE [min |-> [value |-> Some(SetMin(S))],
              max |-> [value |-> Some(SetMax(S))],
              average |-> [value |-> Some(sum), n |-> rows]]

\* coalesce(a1, ..., an): the first argument that is not null
Coalesce(args) ==
    LET set == { i \in 1..Len(args) : args[i] # None }
    IN  IF set = {} THEN None ELSE args[SetMin(set)]

\* the value of binExpression on a row whose field is x
EvalBinExpression(expr, x) ==
    Coalesce([i \in 1..Len(expr) |->
                IF x <= expr[i].upper THEN Some(expr[i].index) ELSE None])

\* the rows the bin expression assigns to bin i
CountInBin(data, expr, i) ==
    LET S == { x \in DOMAIN data : EvalBinExpression(expr, x) = Some(i) }
    IN  SetSum(S, data)

\* the set as a sequence, ascending
RECURSIVE Ascending(_)
Ascending(S) ==
    IF S = {} THEN <<>>
    ELSE LET x == SetMin(S) IN <<x>> \o Ascending(S \ {x})

\* fields: [bin, count], limit: one row per non-empty bin, at most `limit`
\* of them; no sort is asked for, so which rows are kept is the service's choice
HistogramQRs(data, expr, limit) ==
    LET nonEmpty == { i \in 0..(Len(expr) - 1) : CountInBin(data, expr, i) > 0 }
        n == IF Cardinality(nonEmpty) < limit THEN Cardinality(nonEmpty) ELSE limit
    IN  { [data |-> LET bs == Ascending(kept)
                    IN  [j \in 1..Len(bs) |->
                           [bin |-> [value |-> bs[j]],
                            count |-> [value |-> CountInBin(data, expr, bs[j])]]]]
          : kept \in { K \in SUBSET nonEmpty : Cardinality(K) = n } }

(***************************************************************************)
(* Result Formatter                                                        *)
(***************************************************************************)
formatData(d) ==
    [v |-> IF d.rendered # None THEN d.rendered[1] ELSE <<"text", d.value>>,
     l |-> IF d.links # None THEN d.links[1] ELSE None,
     n |-> IF d.isNumber THEN Some(d.value) ELSE None]

\* a truthy number: neither null nor 0
Truthy(o) == o # None /\ o[1] # 0

\* null - null is 0 in arithmetic
ToNumber(o) == IF o = None THEN 0 ELSE o[1]

\* value && value.toLocaleString()
Localized(o) ==
    IF Truthy(o) THEN <<"locale", o[1]>>
    ELSE IF o = None THEN <<"null">> ELSE <<"raw", 0>>

(***************************************************************************)
(* Top-Values Summarizer: the code after the query has returned            *)
(***************************************************************************)
\* data[0][1] of an empty data throws a TypeError
TopValuesThrows(qr) == Len(qr.data) = 0

TopValuesResult(qr) ==
    LET data == [i \in 1..Len(qr.data) |->
                   <<formatData(qr.data[i].field), formatData(qr.data[i].count)>>]
    IN  [align |-> <<"left", "right">>,
         data |-> data,
         max |-> <<None, data[1][2].n>>,
         aux |-> Some(<<"locale", qr.totals_data.count.value, " rows">>),
         histogram |-> None]

(***************************************************************************)
(* Distribution Summarizer                                                 *)
(***************************************************************************)
BinsShifted(min, max) ==
    LET range == Abs(ToNumber(max) - ToNumber(min))
        binSize == range \div binCount
    IN  [i \in 1..binCount |->
           <<ToNumber(min) + binSize * i, ToNumber(min) + binSize * (i + 1)>>]

\* bins[i] is the source's bins[i - 1]; the division is exact on the rows
\* of Datasets
Bins(min, max) ==
    LET range == Abs(ToNumber(max) - ToNumber(min))
        binSize == range \div binCount
    IN  [i \in 1..binCount |->
           <<ToNumber(min) + binSize * (i - 1), ToNumber(min) + binSize * i>>]

BinExpressionOnLower(field, bins) ==
    [i \in 1..Len(bins) |-> [ref |-> field.name, upper |-> bins[i][1], index |-> i - 1]]

\* coalesce(if(${field} <= max_0, 0, null), ..., if(${field} <= max_19, 19, null))
BinExpression(field, bins) ==
    [i \in 1..Len(bins) |-> [ref |-> field.name, upper |-> bins[i][2], index |-> i - 1]]

Histogram(bins, histogramQR) ==
    [data |-> [i \in 1..Len(bins) |->
                 LET row == SelectSeq(histogramQR.data, LAMBDA d : d.bin.value = i - 1)
                 IN  [value |-> IF row # <<>> THEN row[1].count.value ELSE 0,
                      min |-> bins[i][1],
                      max |-> bins[i][2]]]]

DistributionResult(qr, histogram) ==
    [align |-> <<"left", "right">>,
     histogram |-> histogram,
     data |-> << <<[v |-> <<"Min">>], [v |-> Localized(qr.min.value)]>>,
                 <<[v |-> <<"Max">>], [v |-> Localized(qr.max.value)]>>,
                 <<[v |-> <<"Average">>], [v |-> Localized(qr.average.value)]>> >>,
     max |-> <<None, None>>,
     aux |-> None]

(***************************************************************************)
(* State                                                                   *)
(***************************************************************************)
VARIABLES
    data,     \* the rows of the query service
    meta,     \* the explore and the field the requests are about
    cache,    \* the module's cache object: key -> result
    pc,       \* where each caller's runChartQuery call stands
    req,      \* the request of each caller's call
    loc,      \* the locals of the summarizer each call runs
    ret,      \* what runChartQuery gave each caller
    calls,    \* runChartQuery calls made so far
    failures, \* the keys a computation has failed for (history)
    probe     \* a classifier call and its value (SpecClassify)

vars == <<data, meta, cache, pc, req, loc, ret, calls, failures, probe>>

Callers == 1..NumCallers

Model == [name |-> "m"]

\* the fields of view Orders; in Spec, a number dimension and a string measure
OrdersFields == { f \in Fields : f.view_label = "Orders" }
MainFields == { f \in OrdersFields : (f.type = "number") = (f.category = "dimension") }

\* an explore with the companion Count behind another view's, and one without
MainExplores ==
    { e \in Explores :
        /\ Len(e.fields.measures) = 2
        /\ e.fields.measures[1].label_short = "Count"
        /\ e.fields.measures[1].view_label = "Products"
        /\ e.fields.measures[2].view_label = "Orders" }

DistFields == { f \in OrdersFields : f.category = "dimension" }

\* the requests a caller may make: QueryChartType
Requests(types) ==
    [type : types, model : {Model}, explore : {meta.explore}, field : {meta.field}]

MainRequests == Requests({"Values", "Distribution"})

DistRequests == Requests({"Distribution"})

\* JSON.stringify(type): the properties in their order
Stringify(type) ==
    <<"model", type.model, "explore", type.explore, "field", type.field,
      "type", type.type>>

\* cache[key]
Lookup(c, key) == IF key \in DOMAIN c THEN Some(c[key]) ELSE None

\* cache[key] = value
Store(c, key, value) ==
    [k \in DOMAIN c \cup {key} |-> IF k = key THEN value ELSE c[k]]

CacheMissAlways(c, key) == TRUE

\* !cache[key]: a result is an object, so it is falsy only when absent
CacheMiss(c, key) == Lookup(c, key) = None

CacheAfterThrowPoisoned(c, key, error) == Store(c, key, [error |-> error])

\* `cache[key] = await getter()` when the getter rejects: the await throws
\* and nothing is assigned
CacheAfterThrow(c, key, error) == c

NoLoc ==
    [summarizer |-> FALSE,  \* the getter was called
     retry |-> FALSE,       \* ... after a computation for the key had failed
     queries |-> 0,         \* queries sent to the query service
     top |-> None,          \* qr of getTopValues
     qr |-> None,           \* qr.data[0] of getDistribution
     bins |-> <<>>,
     expr |-> <<>>,         \* binExpression
     histogramQR |-> None,
     value |-> None,        \* the summarizer's result
     error |-> ""]          \* what the summarizer threw

NoRet == [value |-> None, error |-> ""]

Key(p) == Stringify(req[p][1])

InFlight == {"topValues", "stats", "histogram"}

Init ==
    /\ data \in Datasets(MainLos, MainRows)
    /\ meta \in [explore : MainExplores, field : MainFields]
    /\ cache = <<>>
    /\ pc = [p \in Callers |-> "idle"]
    /\ req = [p \in Callers |-> None]
    /\ loc = [p \in Callers |-> NoLoc]
    /\ ret = [p \in Callers |-> NoRet]
    /\ calls = 0
    /\ failures = {}
    /\ probe = None

(***************************************************************************)
(* runChartQuery and localCache                                            *)
(***************************************************************************)
Begin(p, type) ==
    /\ pc[p] = "idle"
    /\ calls < MaxCalls
    /\ calls' = calls + 1
    /\ req' = [req EXCEPT ![p] = Some(type)]

\* localCache finds the key: runChartQuery returns what is stored
CacheHit(p, type) ==
    /\ Begin(p, type)
    /\ ~CacheMiss(cache, Stringify(type))
    /\ pc' = [pc EXCEPT ![p] = "returned"]
    /\ ret' = [ret EXCEPT ![p] = [value |-> Lookup(cache, Stringify(type)),
                                  error |-> ""]]
    /\ loc' = [loc EXCEPT ![p] = NoLoc]
    /\ UNCHANGED <<data, meta, cache, failures, probe>>

\* a miss for kind Values: the getter runs getTopValues up to its await.
\* countField.name of an undefined countField throws before the query is sent
StartTopValues(p, type) ==
    /\ Begin(p, type)
    /\ type.type = "Values"
    /\ CacheMiss(cache, Stringify(type))
    /\ LET countField == countFieldForField(type.explore, type.field)
           mine == [NoLoc EXCEPT !.summarizer = TRUE,
                                 !.retry = Stringify(type) \in failures]
       IN  IF countField = None
           THEN /\ pc' = [pc EXCEPT ![p] = "rejected"]
                /\ loc' = [loc EXCEPT ![p] = [mine EXCEPT !.error = "TypeError"]]
           ELSE /\ pc' = [pc EXCEPT ![p] = "topValues"]
                /\ loc' = [loc EXCEPT ![p] = [mine EXCEPT !.queries = 1]]
    /\ UNCHANGED <<data, meta, cache, ret, failures, probe>>

\* a miss for kind Distribution: getDistribution sends the stats query
StartDistribution(p, type) ==
    /\ Begin(p, type)
    /\ type.type = "Distribution"
    /\ CacheMiss(cache, Stringify(type))
    /\ pc' = [pc EXCEPT ![p] = "stats"]
    /\ loc' = [loc EXCEPT ![p] = [NoLoc EXCEPT !.summarizer = TRUE,
                                               !.retry = Stringify(type) \in failures,
                                               !.queries = 1]]
    /\ UNCHANGED <<data, meta, cache, ret, failures, probe>>

\* the top-values query returns: getTopValues runs to its end
TopValuesReply(p) ==
    /\ pc[p] = "topValues"
    /\ LET qr == TopValuesQR(data, req[p][1].field, limitTopValues)
       IN  IF TopValuesThrows(qr)
           THEN /\ pc' = [pc EXCEPT ![p] = "rejected"]
                /\ loc' = [loc EXCEPT ![p].top = Some(qr), ![p].error = "TypeError"]
           ELSE /\ pc' = [pc EXCEPT ![p] = "fulfilled"]
                /\ loc' = [loc EXCEPT ![p].top = Some(qr),
                                      ![p].value = Some(TopValuesResult(qr))]
    /\ UNCHANGED <<data, meta, cache, req, ret, calls, failures, probe>>

\* the stats query returns: getDistribution runs to its second await, or to
\* its end when min.value is falsy
StatsReply(p) ==
    /\ pc[p] = "stats"
    /\ LET type == req[p][1]
           countField == countFieldForField(type.explore, type.field)
           qr == StatsQR(data)
           bins == Bins(qr.min.value, qr.max.value)
           mine == [loc[p] EXCEPT !.qr = Some(qr), !.bins = bins]
       IN  IF Truthy(qr.min.value)
           THEN IF countField = None
                THEN /\ pc' = [pc EXCEPT ![p] = "rejected"]
                     /\ loc' = [loc EXCEPT ![p] =
                                  [mine EXCEPT !.expr = BinExpression(type.field, bins),
                                               !.error = "TypeError"]]
                ELSE /\ pc' = [pc EXCEPT ![p] = "histogram"]
                     /\ loc' = [loc EXCEPT ![p] =
                                  [mine EXCEPT !.expr = BinExpression(type.field, bins),
                                               !.queries = 2]]
           ELSE /\ pc' = [pc EXCEPT ![p] = "fulfilled"]
                /\ loc' = [loc EXCEPT ![p] =
                             [mine EXCEPT !.value = Some(DistributionResult(qr, None))]]
    /\ UNCHANGED <<data, meta, cache, req, ret, calls, failures, probe>>

\* the histogram query returns: getDistribution runs to its end
HistogramReply(p) ==
    /\ pc[p] = "histogram"
    /\ \E histogramQR \in HistogramQRs(data, loc[p].expr, limitHistogram) :
         loc' = [loc EXCEPT ![p].histogramQR = Some(histogramQR),
                            ![p].value = Some(DistributionResult(loc[p].qr[1],
                                           Some(Histogram(loc[p].bins, histogramQR))))]
    /\ pc' = [pc EXCEPT ![p] = "fulfilled"]
    /\ UNCHANGED <<data, meta, cache, req, ret, calls, failures, probe>>

\* sdk.ok rejects: the summarizer's promise rejects
QueryError(p) ==
    /\ pc[p] \in InFlight
    /\ pc' = [pc EXCEPT ![p] = "rejected"]
    /\ loc' = [loc EXCEPT ![p].error = "QueryError"]
    /\ UNCHANGED <<data, meta, cache, req, ret, calls, failures, probe>>

\* localCache resumes with the getter's value: cache[key] = value; return cache[key]
LocalCacheStore(p) ==
    /\ pc[p] = "fulfilled"
    /\ cache' = Store(cache, Key(p), loc[p].value[1])
    /\ ret' = [ret EXCEPT ![p] = [value |-> Lookup(cache', Key(p)), error |-> ""]]
    /\ pc' = [pc EXCEPT ![p] = "returned"]
    /\ UNCHANGED <<data, meta, req, loc, calls, failures, probe>>

\* localCache resumes with the getter's rejection, which runChartQuery rethrows
LocalCacheThrow(p) ==
    /\ pc[p] = "rejected"
    /\ cache' = CacheAfterThrow(cache, Key(p), loc[p].error)
    /\ ret' = [ret EXCEPT ![p] = [value |-> None, error |-> loc[p].error]]
    /\ pc' = [pc EXCEPT ![p] = "failed"]
    /\ failures' = failures \cup {Key(p)}
    /\ UNCHANGED <<data, meta, req, loc, calls, probe>>

\* the caller is done with the outcome and may call again
Finish(p) ==
    /\ pc[p] \in {"returned", "failed"}
    /\ pc' = [pc EXCEPT ![p] = "idle"]
    /\ req' = [req EXCEPT ![p] = None]
    /\ loc' = [loc EXCEPT ![p] = NoLoc]
    /\ ret' = [ret EXCEPT ![p] = NoRet]
    /\ UNCHANGED <<data, meta, cache, calls, failures, probe>>

Next ==
    \E p \in Callers :
        \/ \E type \in MainRequests : CacheHit(p, type)
        \/ \E type \in MainRequests : StartTopValues(p, type)
        \/ \E type \in MainRequests : StartDistribution(p, type)
        \/ TopValuesReply(p)
        \/ StatsReply(p)
        \/ HistogramReply(p)
        \/ QueryError(p)
        \/ LocalCacheStore(p)
        \/ LocalCacheThrow(p)
        \/ Finish(p)

Spec == Init /\ [][Next]_vars

(***************************************************************************)
(* One caller, Distribution requests, more rows                            *)
(***************************************************************************)
InitDist ==
    /\ data \in Datasets(Los, MaxRows)
    /\ meta \in [explore : MainExplores, field : DistFields]
    /\ cache = <<>>
    /\ pc = [p \in Callers |-> "idle"]
    /\ req = [p \in Callers |-> None]
    /\ loc = [p \in Callers |-> NoLoc]
    /\ ret = [p \in Callers |-> NoRet]
    /\ calls = 0
    /\ failures = {}
    /\ probe = None

NextDist ==
    \E p \in {1} :
        \/ \E type \in DistRequests : CacheHit(p, type)
        \/ \E type \in DistRequests : StartDistribution(p, type)
        \/ StatsReply(p)
        \/ HistogramReply(p)
        \/ QueryError(p)
        \/ LocalCacheStore(p)
        \/ LocalCacheThrow(p)
        \/ Finish(p)

SpecDist == InitDist /\ [][NextDist]_vars

(***************************************************************************)
(* The classifiers, applied to every explore and field                     *)
(***************************************************************************)
InitClassify ==
    /\ data = <<>>
    /\ meta = None
    /\ cache = <<>>
    /\ pc = [p \in Callers |-> "idle"]
    /\ req = [p \in Callers |-> None]
    /\ loc = [p \in Callers |-> NoLoc]
    /\ ret = [p \in Callers |-> NoRet]
    /\ calls = 0
    /\ failures = {}
    /\ probe \in [explore : Explores, field : Fields, op : {""},
                  countField : {None}, can : {FALSE}]

CallCountFieldForField ==
    /\ probe.op = ""
    /\ probe' = [probe EXCEPT !.op = "countFieldForField",
                              !.countField = countFieldForField(probe.explore, probe.field)]
    /\ UNCHANGED <<data, meta, cache, pc, req, loc, ret, calls, failures>>

CallCanGetTopValues ==
    /\ probe.op = ""
    /\ probe' = [probe EXCEPT !.op = "canGetTopValues",
                              !.can = canGetTopValues(probe.explore, probe.field)]
    /\ UNCHANGED <<data, meta, cache, pc, req, loc, ret, calls, failures>>

CallCanGetDistribution ==
    /\ probe.op = ""
    /\ probe' = [probe EXCEPT !.op = "canGetDistribution",
                              !.can = canGetDistribution(probe.explore, probe.field)]
    /\ UNCHANGED <<data, meta, cache, pc, req, loc, ret, calls, failures>>

NextClassify ==
    \/ CallCountFieldForField
    \/ CallCanGetTopValues
    \/ CallCanGetDistribution

SpecClassify == InitClassify /\ [][NextClassify]_vars

(***************************************************************************)
(* Properties                                                              *)
(***************************************************************************)
\* the key of the call caller p makes in the step
KeyNext(p) == Stringify(req'[p][1])

\* C1: at most one computation per cache key is in flight: no two callers
\* are suspended on a query of their own summarizer for the same request.
C1_SingleFlight ==
    \A p, q \in Callers :
        (p # q /\ pc[p] \in InFlight /\ pc[q] \in InFlight) => req[p] # req[q]

C3_StoredIsServed ==
    /\ [][\A k \in DOMAIN cache : k \in DOMAIN cache']_vars
    /\ [][\A p \in Callers :
            (pc[p] = "idle" /\ pc'[p] # "idle" /\ Lookup(cache, KeyNext(p)) # None) =>
                /\ pc'[p] = "returned"
                /\ ret'[p].value = Lookup(cache, KeyNext(p))
                /\ ret'[p].error = ""
                /\ ~loc'[p].summarizer
                /\ loc'[p].queries = 0
                /\ cache' = cache]_vars

\* C3 witness: a call was served from the cache.
C3_Witness ==
    \E p \in Callers :
        /\ pc[p] = "returned"
        /\ ~loc[p].summarizer
        /\ ret[p].value = Lookup(cache, Key(p))
        /\ ret[p].value # None

\* the kind is computable for the field
Supported(type) ==
    IF type.type = "Values"
    THEN canGetTopValues(type.explore, type.field)
    ELSE /\ canGetDistribution(type.explore, type.field)
         /\ countFieldForField(type.explore, type.field) # None

\* C4: a call for an unsupported request sends no query and gets no result.
C4_FailFast ==
    \A p \in Callers :
        (req[p] # None /\ ~Supported(req[p][1])) =>
            /\ loc[p].queries = 0
            /\ pc[p] \notin {"fulfilled", "returned"}

\* the histogram of the result of caller p's summarizer, if it has one
HasHistogram(p) == loc[p].value # None /\ loc[p].value[1].histogram # None
HistogramOf(p) == loc[p].value[1].histogram[1].data

\* C5: a histogram has 20 bins, ascending and contiguous, from min.value to
\* max.value.
C5_HistogramComplete ==
    \A p \in Callers :
        HasHistogram(p) =>
            LET h == HistogramOf(p)
                qr == loc[p].qr[1]
            IN  /\ Len(h) = 20
                /\ \A i \in 1..19 : h[i].max = h[i + 1].min /\ h[i].min <= h[i + 1].min
                /\ \A i \in 1..20 : h[i].min <= h[i].max
                /\ qr.max.value[1] > qr.min.value[1] =>
                       \A i \in 1..20 : h[i].min < h[i].max
                /\ h[1].min = qr.min.value[1]
                /\ h[20].max = qr.max.value[1]

\* C5 witness: a histogram over a range that is not empty, built from a
\* response that has no row for some bin.
C5_Witness ==
    \E p \in Callers :
        /\ HasHistogram(p)
        /\ loc[p].qr[1].max.value[1] > loc[p].qr[1].min.value[1]
        /\ Len(loc[p].histogramQR[1].data) < Len(HistogramOf(p))

\* C6: the histogram query is sent if and only if min.value is truthy; with
\* a falsy min.value one query is sent and the result has the three-row
\* grid and no histogram; a histogram comes only from a histogram response.
C6_HistogramIffTruthyMin ==
    \A p \in Callers :
        (req[p] # None /\ loc[p].qr # None) =>
            LET min == loc[p].qr[1].min.value
            IN  /\ (loc[p].queries = 2) <=> Truthy(min)
                /\ ~Truthy(min) =>
                       /\ loc[p].queries = 1
                       /\ loc[p].value # None
                       /\ loc[p].value[1].histogram = None
                       /\ Len(loc[p].value[1].data) = 3
                /\ HasHistogram(p) => loc[p].histogramQR # None

\* C7: a top-values response of zero rows gives a result with an empty
\* grid and no second-column max.
C7_EmptyTopValues ==
    \A p \in Callers :
        (loc[p].top # None /\ Len(loc[p].top[1].data) = 0) =>
            /\ pc[p] \in {"fulfilled", "returned"}
            /\ loc[p].value # None
            /\ loc[p].value[1].data = <<>>
            /\ loc[p].value[1].max[2] = None

\* C8: countFieldForField gives the first measure labelled Count of the
\* field's view, or nothing; canGetTopValues is: a dimension with such a
\* measure; canGetDistribution is: a number dimension; none of them touches
\* the cache or a caller.
C8_Classifiers ==
    /\ [](LET ms == probe.explore.fields.measures
               field == probe.field
               good == { i \in 1..Len(ms) : /\ ms[i].label_short = "Count"
                                             /\ ms[i].view_label = field.view_label }
           IN  /\ probe.op = "countFieldForField" =>
                      IF good = {} THEN probe.countField = None
                      ELSE /\ probe.countField = Some(ms[SetMin(good)])
                           /\ probe.countField[1].view_label = field.view_label
               /\ probe.op = "canGetTopValues" =>
                      (probe.can <=> (field.category = "dimension" /\ good # {}))
               /\ probe.op = "canGetDistribution" =>
                      (probe.can <=> (field.type = "number" /\ field.category = "dimension")))
    /\ [][UNCHANGED <<cache, pc, loc>>]_vars

\* C8 witness: the lookup passed over a Count of another view.
C8_Witness ==
    /\ probe.op = "countFieldForField"
    /\ probe.countField # None
    /\ probe.countField[1].name = 2
    /\ probe.explore.fields.measures[1].label_short = "Count"

\* C9: each bin of the histogram counts the rows the bin expression assigns
\* to it.
C9_FaithfulCounts ==
    \A p \in Callers :
        HasHistogram(p) =>
            \A i \in 0..19 :
                HistogramOf(p)[i + 1].value = CountInBin(data, loc[p].expr, i)

\* the values the bin expression is asked about
ValuesOf(p) == (loc[p].qr[1].min.value[1])..(loc[p].qr[1].max.value[1])

\* the bin of x is the smallest index whose upper bound is at least x
SmallestBin(p, x) ==
    LET b == EvalBinExpression(loc[p].expr, x)
    IN  /\ b # None
        /\ b[1] \in 0..19
        /\ x <= loc[p].bins[b[1] + 1][2]
        /\ \A j \in 0..(b[1] - 1) : x > loc[p].bins[j + 1][2]

\* C10 as stated: x lies in the half-open range [min, max) of its bin.
C10_HalfOpen ==
    \A p \in Callers :
        loc[p].expr # <<>> =>
            \A x \in ValuesOf(p) :
                /\ SmallestBin(p, x)
                /\ LET bin == loc[p].bins[EvalBinExpression(loc[p].expr, x)[1] + 1]
                   IN  bin[1] <= x /\ x < bin[2]

\* C10 as amended: x lies in the range of its bin closed on the right:
\* (min, max], and [min, max] for bin 0.
C10_ClosedAbove ==
    \A p \in Callers :
        loc[p].expr # <<>> =>
            \A x \in ValuesOf(p) :
                /\ SmallestBin(p, x)
                /\ LET i == EvalBinExpression(loc[p].expr, x)[1]
                       bin == loc[p].bins[i + 1]
                   IN  /\ bin[1] <= x
                       /\ x <= bin[2]
                       /\ i > 0 => bin[1] < x

\* C10 witness: the expression is in a query over a range that is not
\* empty, with a row strictly inside a bin and a row on a bin's upper bound.
C10_Witness ==
    \E p \in Callers :
        /\ pc[p] = "histogram"
        /\ \E x \in ValuesOf(p) :
              LET bin == loc[p].bins[EvalBinExpression(loc[p].expr, x)[1] + 1]
              IN  bin[1] < x /\ x < bin[2]
        /\ \E x \in ValuesOf(p) :
              x = loc[p].bins[EvalBinExpression(loc[p].expr, x)[1] + 1][2]

=============================================================================
